---------------------------- MODULE Spec2Model ----------------------------
(***************************************************************************)
(* A model of the AEC3 C wrapper (src/api/aec3_api.cc): aec3_create with   *)
(* its tuning-profile selection, aec3_process_frame with its fixed stage   *)
(* pipeline, and aec3_destroy.                                             *)
(*                                                                         *)
(* Numbers.  The suppression level is a float in the source; here it is an *)
(* integer number of hundredths (80 stands for 0.8f).  Engine tuning       *)
(* parameters are integers in units of 10^-5 (10000 stands for 0.1f,       *)
(* 800000 for 8.0f, 1 for 0.00001f).  Sample rates, sample counts and byte *)
(* counts are plain integers.  Levels are finite numbers; a NaN is not      *)
(* among the inputs.                                                       *)
(*                                                                         *)
(* Audio content is symbolic: an input array is a token, and what a stage  *)
(* produces is a record naming the stage and what it consumed.  The echo   *)
(* controller, the high-pass filter, AudioBuffer and AudioFrame live       *)
(* outside src/api; they are modelled at their interface.                  *)
(***************************************************************************)
EXTENDS Integers, Sequences, FiniteSets, TLC

NULL == "NULL"

(***************************************************************************)
(* Bounds and input sets.                                                  *)
(***************************************************************************)
\* Suppression levels tried by the selector specification run from
\* -LevelSpan to 100 + LevelSpan hundredths.
LevelSpan == 20
\* A live handle processes at most MaxFrames frames.
MaxFrames == 2

Levels == (0 - LevelSpan)..(100 + LevelSpan)
SampleRates == {16000, 48000}
ChannelCounts == {1, 2}
FrameSizes == {160, 480}
Delays == {0, 5}
FrameData == {"f1", "f2"}

(***************************************************************************)
(* The engine's tuning parameters (EchoCanceller3Config) that aec3_create  *)
(* may override, with the engine's default values.                         *)
(***************************************************************************)
TuningFields ==
    {"mask_lf_enr_transparent", "mask_lf_enr_suppress",
     "mask_hf_enr_transparent", "mask_hf_enr_suppress",
     "erle_max_l", "erle_max_h",
     "leakage_converged", "error_floor",
     "max_gain_during_echo", "anti_howling_gain",
     "audibility_threshold_lf", "audibility_threshold_mf",
     "audibility_threshold_hf"}

EngineDefaults ==
    [mask_lf_enr_transparent |-> 30000, mask_lf_enr_suppress |-> 40000,
     mask_hf_enr_transparent |-> 7000,  mask_hf_enr_suppress |-> 10000,
     erle_max_l |-> 400000, erle_max_h |-> 150000,
     leakage_converged |-> 5, error_floor |-> 100,
     max_gain_during_echo |-> 100000, anti_howling_gain |-> 1000,
     audibility_threshold_lf |-> 1000000, audibility_threshold_mf |-> 1000000,
     audibility_threshold_hf |-> 1000000]

(***************************************************************************)
(* Tuning profile selection, aec3_create lines 34-71.                      *)
(***************************************************************************)
Min(a, b) == IF a < b THEN a ELSE b
Max(a, b) == IF a > b THEN a ELSE b

\* A sentinel test of >= instead of > : zero would no longer mean "unset".
SuppressionLevelSentinelGe(raw) ==
    LET substituted == IF raw >= 0 THEN raw ELSE 100
    IN  Max(0, Min(100, substituted))

\* Lines 34-35: a non-positive level becomes 1.0, then the clamp to [0, 1].
SuppressionLevel(raw) ==
    LET substituted == IF raw > 0 THEN raw ELSE 100
    IN  Max(0, Min(100, substituted))

\* Lines 40-60: the overrides of the maximum tier.
MaximumOverrides ==
    [mask_lf_enr_transparent |-> 10000, mask_lf_enr_suppress |-> 20000,
     mask_hf_enr_transparent |-> 5000,  mask_hf_enr_suppress |-> 8000,
     erle_max_l |-> 800000, erle_max_h |-> 400000,
     leakage_converged |-> 1, error_floor |-> 50,
     max_gain_during_echo |-> 10000, anti_howling_gain |-> 500,
     audibility_threshold_lf |-> 500000, audibility_threshold_mf |-> 500000,
     audibility_threshold_hf |-> 500000]

\* A medium tier with a slipped decimal in mask_lf.enr_suppress (0.03f).
MediumOverridesSlipped ==
    [mask_lf_enr_transparent |-> 20000, mask_lf_enr_suppress |-> 3000,
     mask_hf_enr_transparent |-> 6000,  mask_hf_enr_suppress |-> 9000,
     erle_max_l |-> 600000, erle_max_h |-> 300000,
     max_gain_during_echo |-> 30000]

\* Lines 63-69: the overrides of the medium tier.
MediumOverrides ==
    [mask_lf_enr_transparent |-> 20000, mask_lf_enr_suppress |-> 30000,
     mask_hf_enr_transparent |-> 6000,  mask_hf_enr_suppress |-> 9000,
     erle_max_l |-> 600000, erle_max_h |-> 300000,
     max_gain_during_echo |-> 30000]

\* The record with no field: nothing overridden.
NoOverrides == [f \in {} |-> 0]

\* Lines 37-71: the if / else-if ladder on the substituted, clamped level.
Overrides(raw) ==
    LET suppression_level == SuppressionLevel(raw)
    IN  IF suppression_level >= 80 THEN MaximumOverrides
        ELSE IF suppression_level >= 50 THEN MediumOverrides
        ELSE NoOverrides

\* The EchoCanceller3Config handed to the factory: defaults, overridden.
ApplyOverrides(ov) ==
    [f \in TuningFields |-> IF f \in DOMAIN ov THEN ov[f] ELSE EngineDefaults[f]]

AecConfig(raw) == ApplyOverrides(Overrides(raw))

(***************************************************************************)
(* The collaborators used through their interface: AudioFrame,             *)
(* AudioBuffer, HighPassFilter and the EchoControl engine.                 *)
(***************************************************************************)
NoData == [kind |-> "none"]

\* A default-constructed AudioFrame (struct members ref_frame, aec_frame).
NewAudioFrame ==
    [samples_per_channel |-> 0, sample_rate_hz |-> 0, num_channels |-> 0,
     muted |-> TRUE, data |-> NoData]

\* AudioFrame::UpdateFrame: sets the layout, and copies
\* samples_per_channel * num_channels samples when data is not null.
UpdateFrame(frame, data, samples_per_channel, sample_rate_hz, num_channels) ==
    [samples_per_channel |-> samples_per_channel,
     sample_rate_hz |-> sample_rate_hz,
     num_channels |-> num_channels,
     muted |-> (data = NULL),
     data |-> IF data = NULL THEN frame.data
              ELSE [kind |-> "pcm", id |-> data,
                    samples |-> samples_per_channel * num_channels]]

\* The number of samples an AudioFrame is laid out to hold.
FrameSamples(frame) == frame.samples_per_channel * frame.num_channels

NoBuffer == [present |-> FALSE]

\* AudioBuffer(rate, channels, rate, channels, rate, channels).
NewAudioBuffer(rate, channels) ==
    [present |-> TRUE, rate |-> rate, channels |-> channels,
     bands |-> "full", data |-> NoData]

\* AudioBuffer::CopyFrom(const AudioFrame*).
CopyFrom(buffer, frame) ==
    [buffer EXCEPT !.bands = "full",
                   !.data = [kind |-> "deinterleaved", src |-> frame.data,
                             samples_per_channel |-> frame.samples_per_channel,
                             num_channels |-> frame.num_channels]]

SplitIntoFrequencyBands(buffer) == [buffer EXCEPT !.bands = "split"]

MergeFrequencyBands(buffer) == [buffer EXCEPT !.bands = "full"]

\* AudioBuffer::CopyTo(AudioFrame*): fills the frame's data, layout kept.
CopyTo(buffer, frame) ==
    [frame EXCEPT !.muted = FALSE,
                  !.data = [kind |-> "interleaved", src |-> buffer.data]]

\* HighPassFilter(sample_rate, num_channels): a filter with memory.
NewHighPassFilter(rate, channels) ==
    [sample_rate_hz |-> rate, num_channels |-> channels, hist |-> <<>>]

\* HighPassFilter::Process(audio, true): the filter after the call.
FilterAfterProcess(filter, buffer) ==
    [filter EXCEPT !.hist = Append(@, buffer.data)]

\* HighPassFilter::Process(audio, true): the buffer after the call.
BufferAfterFilter(filter, buffer) ==
    [buffer EXCEPT !.data = [kind |-> "highpassed", src |-> buffer.data,
                             memory |-> filter.hist]]

\* EchoCanceller3Factory(aec_config).Create(rate, channels, channels): the
\* engine's adaptive state is everything it has been fed, in order.
CreateEchoControl(aec_config, export_linear, rate, render_channels, capture_channels) ==
    [config |-> aec_config, export_linear_aec_output |-> export_linear,
     sample_rate_hz |-> rate,
     num_render_channels |-> render_channels,
     num_capture_channels |-> capture_channels,
     delay |-> 0, log |-> <<>>]

AnalyzeRender(engine, buffer) ==
    [engine EXCEPT !.log = Append(@, [call |-> "AnalyzeRender", audio |-> buffer])]

AnalyzeCapture(engine, buffer) ==
    [engine EXCEPT !.log = Append(@, [call |-> "AnalyzeCapture", audio |-> buffer])]

SetAudioBufferDelay(engine, delay) ==
    [engine EXCEPT !.delay = delay,
                   !.log = Append(@, [call |-> "SetAudioBufferDelay", delay |-> delay])]

\* EchoControl::ProcessCapture(capture, linear_output, false): the engine,
\* the capture buffer and the linear buffer after the call.
EngineAfterProcessCapture(engine, capture, linear) ==
    [engine EXCEPT !.log = Append(@, [call |-> "ProcessCapture", audio |-> capture,
                                      linear_output |-> linear.present])]

CaptureAfterProcessCapture(engine, capture) ==
    [capture EXCEPT !.data = [kind |-> "suppressed", src |-> capture.data,
                              engine |-> engine]]

LinearAfterProcessCapture(engine, capture, linear) ==
    IF linear.present
    THEN [linear EXCEPT !.data = [kind |-> "linear", src |-> capture.data,
                                  engine |-> engine]]
    ELSE linear

\* The frames an engine has processed: its ProcessCapture calls.
FramesProcessed(engine) ==
    Cardinality({i \in 1..Len(engine.log) : engine.log[i].call = "ProcessCapture"})

(***************************************************************************)
(* aec3_create, lines 22-100.                                              *)
(***************************************************************************)
NullConfig == [null |-> TRUE]

Config(sample_rate, num_channels, export_linear, suppression_level) ==
    [null |-> FALSE, sample_rate |-> sample_rate, num_channels |-> num_channels,
     export_linear |-> export_linear, suppression_level |-> suppression_level]

\* Line 92.
kLinearOutputRateHz == 16000

\* A linear buffer allocated whatever the configuration asks.
NewLinearAudioAlways(config) ==
    NewAudioBuffer(kLinearOutputRateHz, config.num_channels)

\* Lines 91-97: the linear buffer exists only when export_linear is set.
NewLinearAudio(config) ==
    IF config.export_linear
    THEN NewAudioBuffer(kLinearOutputRateHz, config.num_channels)
    ELSE NoBuffer

\* Lines 25-99: the struct aec3_handle that aec3_create builds.
NewHandle(config) ==
    [echo_controller |->
         CreateEchoControl(AecConfig(config.suppression_level), config.export_linear,
                           config.sample_rate, config.num_channels, config.num_channels),
     hp_filter |-> NewHighPassFilter(config.sample_rate, config.num_channels),
     ref_audio |-> NewAudioBuffer(config.sample_rate, config.num_channels),
     aec_audio |-> NewAudioBuffer(config.sample_rate, config.num_channels),
     aec_linear_audio |-> NewLinearAudio(config),
     ref_frame |-> NewAudioFrame,
     aec_frame |-> NewAudioFrame,
     sample_rate |-> config.sample_rate,
     num_channels |-> config.num_channels]

VARIABLES
    sel,        \* the selector specification's pair of levels and their profiles
    handles,    \* each heap slot: never allocated, a live aec3_handle, or freed
    last,       \* the most recent API call: its arguments' shape and its effects
    faulted     \* the process has crashed

vars == <<sel, handles, last, faulted>>

Slots == {"h1", "h2"}

NoWrite == [present |-> FALSE]

\* The record of a call: its arguments as passed, before its effects are
\* filled in.  args holds which pointer arguments were null.
NoArgs == [handle |-> FALSE, reference_frame |-> FALSE,
           capture_frame |-> FALSE, output_frame |-> FALSE]

Call(op, handle) ==
    [op |-> op, handle |-> handle, config |-> NullConfig, null |-> NoArgs,
     ret |-> 0, ub |-> FALSE,
     frame_size |-> 0, buffer_delay |-> 0, linear_arg |-> FALSE,
     trace |-> <<>>, out |-> NoWrite, lin |-> NoWrite]

IsLive(h) == h \in Slots /\ handles[h].status = "live"

(***************************************************************************)
(* aec3_process_frame, lines 102-166.  The pipeline runs on a context: the *)
(* handle's struct, the stages run so far, and what was written to the     *)
(* caller's output array and linear output array.                          *)
(***************************************************************************)
\* sizeof(int16_t), line 153.
BytesPerSample == 2
\* The byte count of the memcpy at line 162.
LinearCopyBytes == 320

Ran(c, stage) == Append(c.trace, stage)

\* A null test that forgets output_frame.
ArgsRejectedNoOutput(handle, reference_frame, capture_frame, output_frame) ==
    handle = NULL \/ reference_frame = NULL \/ capture_frame = NULL

\* Line 111.
ArgsRejected(handle, reference_frame, capture_frame, output_frame) ==
    handle = NULL \/ reference_frame = NULL \/ capture_frame = NULL
        \/ output_frame = NULL

\* Lines 116-118.
StageReference(c, reference_frame, frame_size) ==
    [c EXCEPT !.obj.ref_frame =
                  UpdateFrame(@, reference_frame, frame_size, c.obj.sample_rate, 1),
              !.trace = Ran(c, "ref_frame.UpdateFrame")]

\* Lines 120-122.
StageCapture(c, capture_frame, frame_size) ==
    [c EXCEPT !.obj.aec_frame =
                  UpdateFrame(@, capture_frame, frame_size, c.obj.sample_rate, 1),
              !.trace = Ran(c, "aec_frame.UpdateFrame")]

\* Line 125.
CopyReferenceIn(c) ==
    [c EXCEPT !.obj.ref_audio = CopyFrom(@, c.obj.ref_frame),
              !.trace = Ran(c, "ref_audio.CopyFrom")]

\* Line 126.
CopyCaptureIn(c) ==
    [c EXCEPT !.obj.aec_audio = CopyFrom(@, c.obj.aec_frame),
              !.trace = Ran(c, "aec_audio.CopyFrom")]

\* Line 129.
SplitReference(c) ==
    [c EXCEPT !.obj.ref_audio = SplitIntoFrequencyBands(@),
              !.trace = Ran(c, "ref_audio.SplitIntoFrequencyBands")]

\* Line 130.
RenderAnalysis(c) ==
    [c EXCEPT !.obj.echo_controller = AnalyzeRender(@, c.obj.ref_audio),
              !.trace = Ran(c, "AnalyzeRender")]

\* Line 131.
MergeReference(c) ==
    [c EXCEPT !.obj.ref_audio = MergeFrequencyBands(@),
              !.trace = Ran(c, "ref_audio.MergeFrequencyBands")]

\* Line 133.
CaptureAnalysis(c) ==
    [c EXCEPT !.obj.echo_controller = AnalyzeCapture(@, c.obj.aec_audio),
              !.trace = Ran(c, "AnalyzeCapture")]

\* Line 134.
SplitCapture(c) ==
    [c EXCEPT !.obj.aec_audio = SplitIntoFrequencyBands(@),
              !.trace = Ran(c, "aec_audio.SplitIntoFrequencyBands")]

\* Line 135.
HighPass(c) ==
    [c EXCEPT !.obj.aec_audio = BufferAfterFilter(c.obj.hp_filter, @),
              !.obj.hp_filter = FilterAfterProcess(@, c.obj.aec_audio),
              !.trace = Ran(c, "hp_filter.Process")]

\* Line 138.
SetDelay(c, buffer_delay) ==
    [c EXCEPT !.obj.echo_controller = SetAudioBufferDelay(@, buffer_delay),
              !.trace = Ran(c, "SetAudioBufferDelay")]

\* Lines 140-146: the linear buffer is handed over when the handle has one,
\* a null pointer otherwise.
EchoSuppression(c) ==
    [c EXCEPT !.obj.echo_controller =
                  EngineAfterProcessCapture(@, c.obj.aec_audio, c.obj.aec_linear_audio),
              !.obj.aec_audio = CaptureAfterProcessCapture(c.obj.echo_controller, @),
              !.obj.aec_linear_audio =
                  LinearAfterProcessCapture(c.obj.echo_controller, c.obj.aec_audio, @),
              !.trace = Ran(c, "ProcessCapture")]

\* Line 148.
MergeCapture(c) ==
    [c EXCEPT !.obj.aec_audio = MergeFrequencyBands(@),
              !.trace = Ran(c, "aec_audio.MergeFrequencyBands")]

\* Line 151.
CopyCaptureOut(c) ==
    [c EXCEPT !.obj.aec_frame = CopyTo(c.obj.aec_audio, @),
              !.trace = Ran(c, "aec_audio.CopyTo")]

\* Lines 152-153: frame_size * num_channels samples go to output_frame;
\* frame_holds is what the staging frame is laid out to hold.
CopyOutput(c, frame_size) ==
    [c EXCEPT !.out = [present |-> TRUE,
                       samples |-> frame_size * c.obj.num_channels,
                       bytes |-> frame_size * c.obj.num_channels * BytesPerSample,
                       frame_holds |-> FrameSamples(c.obj.aec_frame),
                       data |-> c.obj.aec_frame.data],
              !.trace = Ran(c, "memcpy(output_frame)")]

\* Lines 158-160.
ReformatForLinear(c) ==
    [c EXCEPT !.obj.aec_frame =
                  UpdateFrame(@, NULL, kLinearOutputRateHz \div 100,
                              kLinearOutputRateHz, 1),
              !.trace = Ran(c, "aec_frame.UpdateFrame(linear)")]

\* Line 161.
CopyLinearToFrame(c) ==
    [c EXCEPT !.obj.aec_frame = CopyTo(c.obj.aec_linear_audio, @),
              !.trace = Ran(c, "aec_linear_audio.CopyTo")]

\* A linear copy sized like the main one, by the frame's own layout.
CopyLinearOutSized(c) ==
    [c EXCEPT !.lin = [present |-> TRUE,
                       samples |-> FrameSamples(c.obj.ref_frame),
                       bytes |-> FrameSamples(c.obj.ref_frame) * BytesPerSample,
                       frame_holds |-> FrameSamples(c.obj.aec_frame),
                       data |-> c.obj.aec_frame.data],
              !.trace = Ran(c, "memcpy(linear_output_frame)")]

\* Line 162: memcpy of 320 bytes.
CopyLinearOut(c) ==
    [c EXCEPT !.lin = [present |-> TRUE,
                       samples |-> LinearCopyBytes \div BytesPerSample,
                       bytes |-> LinearCopyBytes,
                       frame_holds |-> FrameSamples(c.obj.aec_frame),
                       data |-> c.obj.aec_frame.data],
              !.trace = Ran(c, "memcpy(linear_output_frame)")]

\* A guard that forgets the caller's pointer may be null.
WantsLinearHandleOnly(c, linear_output_frame) ==
    c.obj.aec_linear_audio.present

\* Line 156.
WantsLinear(c, linear_output_frame) ==
    linear_output_frame # NULL /\ c.obj.aec_linear_audio.present

\* Lines 156-163.
LinearOutput(c, linear_output_frame) ==
    IF WantsLinear(c, linear_output_frame)
    THEN CopyLinearOut(CopyLinearToFrame(ReformatForLinear(c)))
    ELSE c

\* The pipeline with capture analysis moved after the split and the filter.
RunPipelineLateAnalysis(obj, reference_frame, capture_frame, linear_output_frame, frame_size, buffer_delay) ==
    LET c0  == [obj |-> obj, trace |-> <<>>, out |-> NoWrite, lin |-> NoWrite]
        c1  == StageReference(c0, reference_frame, frame_size)
        c2  == StageCapture(c1, capture_frame, frame_size)
        c3  == CopyReferenceIn(c2)
        c4  == CopyCaptureIn(c3)
        c5  == SplitReference(c4)
        c6  == RenderAnalysis(c5)
        c7  == MergeReference(c6)
        c8  == SplitCapture(c7)
        c9  == HighPass(c8)
        c10 == CaptureAnalysis(c9)
        c11 == SetDelay(c10, buffer_delay)
        c12 == EchoSuppression(c11)
        c13 == MergeCapture(c12)
        c14 == CopyCaptureOut(c13)
        c15 == CopyOutput(c14, frame_size)
    IN  LinearOutput(c15, linear_output_frame)

\* Lines 116-163, in the order of the code.
RunPipeline(obj, reference_frame, capture_frame, linear_output_frame, frame_size, buffer_delay) ==
    LET c0  == [obj |-> obj, trace |-> <<>>, out |-> NoWrite, lin |-> NoWrite]
        c1  == StageReference(c0, reference_frame, frame_size)
        c2  == StageCapture(c1, capture_frame, frame_size)
        c3  == CopyReferenceIn(c2)
        c4  == CopyCaptureIn(c3)
        c5  == SplitReference(c4)
        c6  == RenderAnalysis(c5)
        c7  == MergeReference(c6)
        c8  == CaptureAnalysis(c7)
        c9  == SplitCapture(c8)
        c10 == HighPass(c9)
        c11 == SetDelay(c10, buffer_delay)
        c12 == EchoSuppression(c11)
        c13 == MergeCapture(c12)
        c14 == CopyCaptureOut(c13)
        c15 == CopyOutput(c14, frame_size)
    IN  LinearOutput(c15, linear_output_frame)

\* A staging frame that is one static object shared by every handle.
StoreHandleSharedFrame(hs, handle, obj) ==
    [g \in Slots |->
        IF g = handle THEN [status |-> "live", obj |-> obj]
        ELSE IF hs[g].status = "live"
        THEN [hs[g] EXCEPT !.obj.aec_frame = obj.aec_frame]
        ELSE hs[g]]

\* Every stage above works through handle->: only that struct is written.
StoreHandle(hs, handle, obj) ==
    [hs EXCEPT ![handle] = [status |-> "live", obj |-> obj]]

NullPattern(handle, reference_frame, capture_frame, output_frame) ==
    [handle |-> (handle = NULL), reference_frame |-> (reference_frame = NULL),
     capture_frame |-> (capture_frame = NULL), output_frame |-> (output_frame = NULL)]

\* A handle the caller can hold: null, or one aec3_create once returned.
Holds(handle) ==
    IF handle = NULL THEN TRUE ELSE handles[handle].status # "unalloc"

aec3_process_frame(handle, reference_frame, capture_frame, output_frame, linear_output_frame, frame_size, buffer_delay) ==
    LET call == [Call("process", handle) EXCEPT
                    !.null = NullPattern(handle, reference_frame, capture_frame,
                                         output_frame)]
    IN
    /\ ~faulted
    /\ Holds(handle)
    /\ IF ArgsRejected(handle, reference_frame, capture_frame, output_frame)
       THEN \* lines 111-113
            /\ last' = [call EXCEPT !.ret = -1]
            /\ UNCHANGED <<handles, faulted>>
       ELSE IF handle = NULL \/ output_frame = NULL
       THEN \* not reached past line 111: lines 116 and 152 would dereference
            \* or write through a null pointer
            /\ faulted' = TRUE
            /\ last' = [call EXCEPT !.ub = TRUE]
            /\ UNCHANGED handles
       ELSE IF handles[handle].status = "live"
       THEN /\ FramesProcessed(handles[handle].obj.echo_controller) < MaxFrames
            /\ LET c == RunPipeline(handles[handle].obj, reference_frame,
                                    capture_frame, linear_output_frame,
                                    frame_size, buffer_delay)
               IN  /\ handles' = StoreHandle(handles, handle, c.obj)
                   /\ last' = [call EXCEPT !.frame_size = frame_size,
                                           !.buffer_delay = buffer_delay,
                                           !.linear_arg = (linear_output_frame # NULL),
                                           !.trace = c.trace,
                                           !.out = c.out, !.lin = c.lin]
            /\ UNCHANGED faulted
       ELSE \* the handle was destroyed: a use after free
            /\ \E crash \in BOOLEAN : faulted' = crash
            /\ last' = [call EXCEPT !.ub = TRUE]
            /\ UNCHANGED handles
    /\ UNCHANGED sel

(***************************************************************************)
(* aec3_create (lines 22-100) and aec3_destroy (lines 168-170) as actions. *)
(***************************************************************************)
aec3_create(S, config) ==
    /\ ~faulted
    /\ IF config.null
       THEN \* line 23
            /\ last' = Call("create", NULL)
            /\ UNCHANGED handles
       ELSE \E slot \in S :
            /\ handles[slot].status # "live"
            /\ handles' = [handles EXCEPT
                              ![slot] = [status |-> "live", obj |-> NewHandle(config)]]
            /\ last' = [Call("create", slot) EXCEPT !.config = config]
    /\ UNCHANGED <<sel, faulted>>

\* delete of a null pointer that dereferences it first.
DeleteCrashesDeref(handle) ==
    IF handle = NULL THEN {TRUE}
    ELSE IF handles[handle].status = "live" THEN {FALSE}
    ELSE BOOLEAN

\* Line 169, delete handle: whether it can crash.  Deleting a null pointer
\* does nothing; deleting a handle a second time is a double free, which may
\* crash or pass unnoticed.
DeleteCrashes(handle) ==
    IF handle = NULL THEN {FALSE}
    ELSE IF handles[handle].status = "live" THEN {FALSE}
    ELSE BOOLEAN

aec3_destroy(handle) ==
    /\ ~faulted
    /\ Holds(handle)
    /\ \E crash \in DeleteCrashes(handle) :
          /\ faulted' = crash
          /\ IF IsLive(handle)
             THEN /\ handles' = [handles EXCEPT ![handle] = [status |-> "freed"]]
                  /\ last' = Call("destroy", handle)
             ELSE /\ UNCHANGED handles
                  /\ last' = [Call("destroy", handle) EXCEPT !.ub = (handle # NULL)]
    /\ UNCHANGED sel

(***************************************************************************)
(* The specifications.                                                     *)
(***************************************************************************)
SelIdle == [a1 |-> 0, a2 |-> 0, done |-> FALSE]

HandleInit ==
    /\ handles = [h \in Slots |-> [status |-> "unalloc"]]
    /\ last = Call("none", NULL)
    /\ faulted = FALSE

\* The selector specification: a pair of levels, then the selector applied.
SelInit ==
    /\ sel \in [a1 : Levels, a2 : Levels, done : {FALSE}]
    /\ HandleInit

SelectProfile ==
    /\ ~sel.done
    /\ sel' = [a1 |-> sel.a1, a2 |-> sel.a2, done |-> TRUE,
               ov1 |-> Overrides(sel.a1), ov2 |-> Overrides(sel.a2),
               p1 |-> AecConfig(sel.a1), p2 |-> AecConfig(sel.a2)]
    /\ UNCHANGED <<handles, last, faulted>>

SelNext == SelectProfile

SpecTuning == SelInit /\ [][SelNext]_vars

\* The handle specification: one stream, every configuration and call shape.
MainSlots == {"h1"}
CreateLevels == {0, 30, 60}
Pointers(S) == S \cup {NULL}

Configs ==
    {Config(r, n, e, a) : r \in SampleRates, n \in ChannelCounts,
                          e \in BOOLEAN, a \in CreateLevels}

Init == sel = SelIdle /\ HandleInit

Next ==
    \/ \E config \in Configs \cup {NullConfig} : aec3_create(MainSlots, config)
    \/ \E handle \in MainSlots, linear_output_frame \in Pointers({"lin"}),
          frame_size \in FrameSizes, buffer_delay \in Delays :
          aec3_process_frame(handle, "f1", "f1", "out", linear_output_frame,
                             frame_size, buffer_delay)
    \/ \E handle \in Pointers(MainSlots), reference_frame \in Pointers({"f1"}),
          capture_frame \in Pointers({"f1"}), output_frame \in Pointers({"out"}) :
          aec3_process_frame(handle, reference_frame, capture_frame, output_frame,
                             NULL, 160, 0)
    \/ \E handle \in Pointers(MainSlots) : aec3_destroy(handle)

Spec == Init /\ [][Next]_vars

\* The two-stream specification: two heap slots, two configurations, frames
\* of differing content.
IsoConfigs == {Config(16000, 1, TRUE, 90), Config(48000, 2, FALSE, 30)}

IsoNext ==
    \/ \E config \in IsoConfigs : aec3_create(Slots, config)
    \/ \E handle \in Slots, reference_frame \in FrameData, capture_frame \in FrameData :
          aec3_process_frame(handle, reference_frame, capture_frame, "out", "lin",
                             160, 0)
    \/ \E handle \in Slots : aec3_destroy(handle)

SpecIso == Init /\ [][IsoNext]_vars

(***************************************************************************)
(* Properties.                                                             *)
(***************************************************************************)
\* The most recent call was an aec3_process_frame that ran the pipeline on a
\* live handle; the handle's struct is as that call left it.
Succeeded ==
    /\ last.op = "process" /\ last.ret = 0 /\ ~last.ub
    /\ IsLive(last.handle)

Obj(h) == handles[h].obj

AnyNull(n) == n.handle \/ n.reference_frame \/ n.capture_frame \/ n.output_frame

\* C1: a call of aec3_process_frame with a null handle, reference_frame,
\* capture_frame or output_frame returns a negative status, runs no stage,
\* writes no output and leaves every handle as it was.
C1_Step ==
    (last'.op = "process" /\ AnyNull(last'.null)) =>
        /\ last'.ret < 0
        /\ last'.trace = <<>>
        /\ ~last'.out.present /\ ~last'.lin.present
        /\ handles' = handles
        /\ faulted' = faulted

\* C1, of every step: a call with a null argument returns a negative status
\* and changes nothing.
C1_NullArgumentRejected == [][C1_Step]_vars

\* C1 witness: a handle that has processed a frame is then called with a null
\* output_frame alone, and the call returned -1.
C1_Witness ==
    /\ last.op = "process" /\ last.ret = -1
    /\ last.null = [NoArgs EXCEPT !.output_frame = TRUE]
    /\ IsLive(last.handle)
    /\ FramesProcessed(Obj(last.handle).echo_controller) >= 1

MediumFields ==
    {"mask_lf_enr_transparent", "mask_lf_enr_suppress",
     "mask_hf_enr_transparent", "mask_hf_enr_suppress",
     "erle_max_l", "erle_max_h", "max_gain_during_echo"}

EngineStages ==
    <<"ref_audio.SplitIntoFrequencyBands", "AnalyzeRender",
      "ref_audio.MergeFrequencyBands", "AnalyzeCapture",
      "aec_audio.SplitIntoFrequencyBands", "hp_filter.Process",
      "SetAudioBufferDelay", "ProcessCapture",
      "aec_audio.MergeFrequencyBands", "aec_audio.CopyTo",
      "memcpy(output_frame)">>

Occurrences(seq, x) == Cardinality({i \in 1..Len(seq) : seq[i] = x})

\* The engine calls of the most recent frame: the log's last four entries.
LastFrameLog(engine) == SubSeq(engine.log, Len(engine.log) - 3, Len(engine.log))

\* C3: a successful call runs, once each and in this order: split reference,
\* render analysis, merge reference, capture analysis, split capture,
\* high-pass filter, set delay, echo suppression, merge capture, copy out.
\* Render analysis sees the split reference buffer, capture analysis the
\* un-split unfiltered capture buffer, the engine gets the caller's
\* buffer_delay as passed, and suppression sees the split, filtered buffer.
C3_FixedStageOrder ==
    Succeeded =>
        LET engine == Obj(last.handle).echo_controller
            log == LastFrameLog(engine)
        IN  /\ Len(last.trace) >= 15
            /\ SubSeq(last.trace, 5, 15) = EngineStages
            /\ \A i \in 1..Len(EngineStages) :
                   Occurrences(last.trace, EngineStages[i]) = 1
            /\ Len(engine.log) >= 4
            /\ log[1].call = "AnalyzeRender" /\ log[1].audio.bands = "split"
            /\ log[2].call = "AnalyzeCapture" /\ log[2].audio.bands = "full"
            /\ log[2].audio.data.kind = "deinterleaved"
            /\ log[3].call = "SetAudioBufferDelay"
            /\ log[3].delay = last.buffer_delay
            /\ engine.delay = last.buffer_delay
            /\ log[4].call = "ProcessCapture" /\ log[4].audio.bands = "split"
            /\ log[4].audio.data.kind = "highpassed"
            /\ Obj(last.handle).ref_audio.bands = "full"
            /\ Obj(last.handle).aec_audio.bands = "full"

\* C3 witness: a handle's second frame went through with a delay of 5.
C3_Witness ==
    /\ Succeeded
    /\ last.buffer_delay = 5
    /\ FramesProcessed(Obj(last.handle).echo_controller) = 2

\* The most recent call succeeded on a handle created with linear output
\* requested, and was given a linear output array.
LinearCase ==
    /\ Succeeded
    /\ Obj(last.handle).echo_controller.export_linear_aec_output
    /\ last.linear_arg

\* C4 as claimed: the linear copy is of exactly 320 16-bit samples.
C4_Copies320Samples == LinearCase => last.lin.present /\ last.lin.samples = 320

\* C4, amended: the linear copy is of exactly 320 bytes, which is 160 16-bit
\* samples, whatever the session's sample rate and the call's frame_size.
C4_Copies320Bytes ==
    LinearCase =>
        /\ last.lin.present
        /\ last.lin.bytes = 320
        /\ last.lin.samples = 160

\* C4 witness: a linear copy on a 48 kHz session with a frame_size of 480.
C4_Witness ==
    /\ LinearCase
    /\ Obj(last.handle).sample_rate = 48000
    /\ last.frame_size = 480
    /\ last.lin.present

LinearStages ==
    {"aec_frame.UpdateFrame(linear)", "aec_linear_audio.CopyTo",
     "memcpy(linear_output_frame)"}

\* C5: the linear array is written exactly when the handle was created with
\* linear output requested and the array is non-null; otherwise the linear
\* stages are skipped, and the call still returns 0 with the main output
\* written.
C5_LinearWrittenIff ==
    Succeeded =>
        LET requested == Obj(last.handle).echo_controller.export_linear_aec_output
        IN  /\ last.lin.present <=> (requested /\ last.linear_arg)
            /\ (\E i \in 1..Len(last.trace) : last.trace[i] \in LinearStages)
                   <=> (requested /\ last.linear_arg)
            /\ last.ret = 0
            /\ last.out.present

\* C5 witness: a handle created without linear output is given a linear
\* array, and nothing is written to it.
C5_Witness ==
    /\ Succeeded
    /\ ~Obj(last.handle).echo_controller.export_linear_aec_output
    /\ last.linear_arg
    /\ ~last.lin.present /\ last.out.present

\* C6 as claimed: no call of aec3_destroy faults.
C6_DestroyNeverFaults == ~(last.op = "destroy" /\ faulted)

\* C6, amended: aec3_destroy of a null handle changes nothing and does not
\* fault; of a live handle it releases the handle, once, without fault; a
\* fault can come only from destroying a handle that was already destroyed.
C6_Step ==
    last'.op = "destroy" =>
        /\ last'.handle = NULL => (handles' = handles /\ ~faulted')
        /\ IsLive(last'.handle) =>
               (handles'[last'.handle].status = "freed" /\ ~faulted')
        /\ faulted' =>
               (last'.handle # NULL /\ handles[last'.handle].status = "freed")

\* C6, amended, of every step: aec3_destroy faults only on a handle that was
\* already destroyed.
C6_DestroyFaultsOnlyOnDoubleFree == [][C6_Step]_vars

\* C6 witness: a second aec3_destroy of the same handle has crashed.
C6_Witness ==
    /\ last.op = "destroy" /\ last.ub /\ faulted
    /\ handles[last.handle].status = "freed"

\* What a handle was created with, read back from its struct.
ConfigOf(obj) ==
    [sample_rate |-> obj.sample_rate, num_channels |-> obj.num_channels,
     export_linear |-> obj.echo_controller.export_linear_aec_output,
     tuning |-> obj.echo_controller.config]

\* What a handle has been fed: per engine call, the input array's content
\* or the delay.
InputsOf(obj) ==
    [i \in 1..Len(obj.echo_controller.log) |->
        LET e == obj.echo_controller.log[i]
        IN  IF e.call = "AnalyzeRender" \/ e.call = "AnalyzeCapture"
            THEN [call |-> e.call, id |-> e.audio.data.src.id,
                  samples |-> e.audio.data.src.samples]
            ELSE IF e.call = "SetAudioBufferDelay"
            THEN [call |-> e.call, delay |-> e.delay]
            ELSE [call |-> e.call]]

\* The output a call copies to the caller: the capture buffer, interleaved.
OutputOf(obj) == [kind |-> "interleaved", src |-> obj.aec_audio.data]

\* C7: no state is shared between handles.  A step changes no handle but the
\* one the call names; a created handle's state is that of its configuration
\* alone, whatever came before; the output a call writes is that of its own
\* handle; and two live handles of equal configuration fed equal frames and
\* delays are in equal states, so have produced equal output.
C7_Step ==
    /\ \A g \in Slots : g # last'.handle => handles'[g] = handles[g]
    /\ (last'.op = "create" /\ last'.handle # NULL) =>
           handles'[last'.handle] = [status |-> "live", obj |-> NewHandle(last'.config)]
    /\ (last'.op = "process" /\ last'.out.present /\ ~last'.lin.present) =>
           last'.out.data = OutputOf(handles'[last'.handle].obj)
    /\ \A g, h \in Slots :
           (/\ handles'[g].status = "live" /\ handles'[h].status = "live"
            /\ ConfigOf(handles'[g].obj) = ConfigOf(handles'[h].obj)
            /\ InputsOf(handles'[g].obj) = InputsOf(handles'[h].obj))
           => OutputOf(handles'[g].obj) = OutputOf(handles'[h].obj)

C8_Step ==
    /\ (last'.op = "create" /\ last'.config.null) =>
           (last'.handle = NULL /\ handles' = handles)
    /\ (last'.op = "create" /\ ~last'.config.null) =>
           /\ last'.handle \in Slots
           /\ handles'[last'.handle].status = "live"
           /\ LET obj == handles'[last'.handle].obj
              IN  /\ obj.aec_linear_audio.present = last'.config.export_linear
                  /\ obj.sample_rate = last'.config.sample_rate
                  /\ obj.num_channels = last'.config.num_channels
                  /\ obj.echo_controller.config = AecConfig(last'.config.suppression_level)
                  /\ obj.ref_audio.present /\ obj.aec_audio.present
    /\ (last'.op = "process" /\ IsLive(last'.handle)) =>
           /\ handles'[last'.handle].status = "live"
           /\ LET old == handles[last'.handle].obj
                  new == handles'[last'.handle].obj
              IN  /\ new.aec_linear_audio.present = old.aec_linear_audio.present
                  /\ new.sample_rate = old.sample_rate
                  /\ new.num_channels = old.num_channels
                  /\ new.echo_controller.config = old.echo_controller.config

\* C8, of every step: what aec3_create builds is decided by the
\* configuration, and aec3_process_frame does not change it.
C8_HandleShapeFixed == [][C8_Step]_vars

\* C8 witness: a handle created without linear output has processed two
\* frames, each given a linear array, and still has no linear buffer.
C8_Witness ==
    /\ Succeeded
    /\ last.linear_arg
    /\ ~Obj(last.handle).aec_linear_audio.present
    /\ FramesProcessed(Obj(last.handle).echo_controller) = 2

\* p is at least as aggressive as q: no suppression threshold and no
\* max-gain-during-echo higher, no ERLE ceiling lower.
AtLeastAsAggressive(p, q) ==
    /\ \A f \in {"mask_lf_enr_transparent", "mask_lf_enr_suppress",
                 "mask_hf_enr_transparent", "mask_hf_enr_suppress",
                 "max_gain_during_echo"} : p[f] <= q[f]
    /\ \A f \in {"erle_max_l", "erle_max_h"} : p[f] >= q[f]

C10_StagingMatchesChannels ==
    Succeeded =>
        LET obj == Obj(last.handle)
        IN  /\ obj.ref_frame.num_channels = obj.num_channels
            /\ obj.ref_frame.data.samples = last.frame_size * obj.num_channels
            /\ last.out.samples = last.frame_size * obj.num_channels
            /\ last.out.samples <= last.out.frame_holds
=============================================================================
